---- MODULE Spec2Model ----
(***************************************************************************)
(* A model of the Bob polishing plugin (src/src/main.ts, with the helpers  *)
(* that survive only in the legacy src/src/main.js): pluginValidate,       *)
(* translate, the streaming frame assembler (translate.streamHandler and   *)
(* handleStreamResponse) and the response normaliser                       *)
(* (handleGeneralResponse).                                                *)
(*                                                                         *)
(* Texts are TLA+ strings, one character per JavaScript UTF-16 code unit.  *)
(* The module's strings are ASCII; the four non-ASCII quotation marks of   *)
(* handleGeneralResponse's regular expression are written with the ASCII   *)
(* stand-ins listed at OpenQuotes / CloseQuotes.                           *)
(***************************************************************************)
EXTENDS Integers, Sequences, FiniteSets, TLC

VARIABLES
    option,      \* $option, the plugin configuration (global, read-only)
    pc,          \* per call: "unused" | "ready" | "streaming" | "awaiting" | "done"
    kind,        \* per call: "translate" | "validate"
    query,       \* per call: the TextTranslateQuery (detectFrom, detectTo, text)
    http,        \* per call: the requests handed to $http, in order
    events,      \* per call: the callbacks made (onStream / onCompletion / completion), in order
    wire,        \* per call: the part of the streamed body not yet delivered
    delivered,   \* per call: the part of the streamed body already delivered (history)
    chunks,      \* per call: the number of streamHandler invocations so far
    buffer,      \* per call: translate's closure variable `buffer`
    targetText,  \* per call: translate's closure variable `targetText`
    consumed,    \* per call: the concatenation of the chunks appended to buffer (history)
    frames,      \* per call: the payloads passed to handleStreamResponse, in order (history)
    pass,        \* per call: the extraction steps of the last streamHandler invocation (history)
    chunk,       \* per call: the text of the last chunk delivered (history)
    dropped,     \* per call: the number of chunks short-circuited by the Invalid-token test (history)
    last         \* per call: the last transport response handled (history)

vars == <<option, pc, kind, query, http, events, wire, delivered, chunks, buffer,
          targetText, consumed, frames, pass, chunk, dropped, last>>

streamVars == <<wire, delivered, chunks, buffer, targetText, consumed, frames,
                pass, chunk, dropped>>

CallIds == {"q1", "q2"}

\* The value of an absent JavaScript property (undefined).
Undefined == "<undefined>"

-----------------------------------------------------------------------------
(* String helpers: the JavaScript String methods the code uses.            *)

\* s.slice(n) for 0 <= n
Slice(s, n) == IF n >= Len(s) THEN "" ELSE SubSeq(s, n + 1, Len(s))

\* s.slice(0, -n) for n > 0
SliceEnd(s, n) == IF n >= Len(s) THEN "" ELSE SubSeq(s, 1, Len(s) - n)

CharAt(s, i) == SubSeq(s, i, i)

\* s.startsWith(p), s.endsWith(p), s.includes(p)
StartsWith(s, p) == Len(s) >= Len(p) /\ SubSeq(s, 1, Len(p)) = p

EndsWith(s, p) == Len(s) >= Len(p) /\ SubSeq(s, Len(s) - Len(p) + 1, Len(s)) = p

Includes(s, p) ==
    \E i \in 1..(Len(s) - Len(p) + 1) : SubSeq(s, i, i + Len(p) - 1) = p

SetMin(S) == CHOOSE x \in S : \A y \in S : x <= y

SetMax(S) == CHOOSE x \in S : \A y \in S : x >= y

\* The white space String.prototype.trim removes (of the characters that occur here).
WhiteSpace == {" ", "\t", "\n", "\r"}

\* s.trim()
Trim(s) ==
    LET keep == {i \in 1..Len(s) : CharAt(s, i) \notin WhiteSpace}
    IN  IF keep = {} THEN "" ELSE SubSeq(s, SetMin(keep), SetMax(keep))

\* The characters a `.` of a JavaScript regular expression does not match.
LineTerminators == {"\n", "\r"}

-----------------------------------------------------------------------------
(* Callbacks.  Every callback made for a call is appended to events[c] as  *)
(* one record.  The localized message texts of the source are written as   *)
(* short ASCII tags.                                                       *)

\* query.onStream({result: {from, to, toParagraphs}})
StreamEvent(paragraphs) ==
    [cb |-> "onStream", kind |-> "result", type |-> "", message |-> "",
     addition |-> "", toParagraphs |-> paragraphs]

\* query.onCompletion({result: {from, to, toParagraphs}})
ResultEvent(paragraphs) ==
    [cb |-> "onCompletion", kind |-> "result", type |-> "", message |-> "",
     addition |-> "", toParagraphs |-> paragraphs]

\* query.onCompletion({error: {type, message, addition}})
ErrorEvent(type, message, addition) ==
    [cb |-> "onCompletion", kind |-> "error", type |-> type, message |-> message,
     addition |-> addition, toParagraphs |-> <<>>]

\* completion({result: true}) of pluginValidate
ValidEvent ==
    [cb |-> "completion", kind |-> "result", type |-> "", message |-> "",
     addition |-> "", toParagraphs |-> <<>>]

\* completion({result: false, error}) of pluginValidate
InvalidEvent(type, message, addition) ==
    [cb |-> "completion", kind |-> "error", type |-> type, message |-> message,
     addition |-> addition, toParagraphs |-> <<>>]

\* A ServiceError-like object: `response` is the HTTP status of an HttpResponse
\* (NoResponse when the object has no `response` property).
NoResponse == -1

ServiceError(type, message, addition) ==
    [response |-> NoResponse, type |-> type, message |-> message, addition |-> addition]

\* A thrown TypeError / SyntaxError: an Error object, with a message and no type.
Thrown(name) == ServiceError(Undefined, name, Undefined)

\* Mutant of reason: every status from 400 up is a `param` error.
reasonFrom400(statusCode) == IF statusCode >= 400 THEN "param" ELSE "api"

\* The error kind of an HTTP status: (statusCode >= 400 && statusCode < 500) ? "param" : "api"
reason(statusCode) == IF statusCode >= 400 /\ statusCode < 500 THEN "param" ELSE "api"

\* utils.handleGeneralError(query, error): the error is delivered through
\* query.onCompletion; an HTTP response is classified by its status, any other
\* object keeps its fields, with type "unknown" when it has none.
handleGeneralError(error) ==
    IF error.response # NoResponse
    THEN ErrorEvent(reason(error.response), "http-error", "JSON.stringify(error)")
    ELSE ErrorEvent(IF error.type = Undefined THEN "unknown" ELSE error.type,
                    IF error.message = Undefined THEN "Unknown error" ELSE error.message,
                    error.addition)

\* utils.handleValidateError(completion, error): completion({result: false, error}).
handleValidateError(error) ==
    InvalidEvent(IF error.type = Undefined THEN "unknown" ELSE error.type,
                 IF error.message = Undefined THEN "Unknown error" ELSE error.message,
                 error.addition)

\* isServiceError(error): an object with a string `message`.
isServiceError(error) == error.message # Undefined

-----------------------------------------------------------------------------
(* The streaming frame assembler.                                          *)

\* The frame with delta `content`, as the API sends it.
DeltaOpen == "{\"choices\":[{\"delta\":{\"content\":\""

DeltaClose == "\"}}]}"

\* JSON.parse(text) followed by `choices[0]?.delta?.content`, on the payloads
\* that occur in Wires: a delta frame (content without quote or backslash),
\* frames without content, `{}` (choices is undefined, so choices[0] throws a
\* TypeError) and texts that are not JSON (SyntaxError).
parseDelta(text) ==
    IF /\ StartsWith(text, DeltaOpen)
       /\ EndsWith(text, DeltaClose)
       /\ Len(text) >= Len(DeltaOpen) + Len(DeltaClose)
       /\ LET mid == SubSeq(text, Len(DeltaOpen) + 1, Len(text) - Len(DeltaClose))
          IN  ~ Includes(mid, "\"") /\ ~ Includes(mid, "\\")
    THEN [thrown |-> "", delta |-> SubSeq(text, Len(DeltaOpen) + 1, Len(text) - Len(DeltaClose))]
    ELSE IF text \in {"{\"choices\":[{\"delta\":{}}]}", "{\"choices\":[{}]}", "{\"choices\":[]}"}
    THEN [thrown |-> "", delta |-> ""]
    ELSE IF text = "{}"
    THEN [thrown |-> "TypeError", delta |-> ""]
    ELSE [thrown |-> "SyntaxError", delta |-> ""]

\* Mutant of handleStreamResponse: the partial result carries the delta
\* alone, not the accumulated text.
handleStreamResponseDeltaOnly(text, textFromResponse) ==
    LET parsed == parseDelta(textFromResponse)
    IN  IF parsed.thrown = ""
        THEN IF parsed.delta # ""
             THEN [targetText |-> text \o parsed.delta,
                   events |-> <<StreamEvent(<<parsed.delta>>)>>]
             ELSE [targetText |-> text, events |-> <<>>]
        ELSE [targetText |-> text,
              events |-> <<handleGeneralError(ServiceError("param", parsed.thrown,
                                                           Undefined))>>]

\* Mutant of handleStreamResponse: the catch block is empty.
handleStreamResponseSilent(text, textFromResponse) ==
    LET parsed == parseDelta(textFromResponse)
    IN  IF parsed.thrown = "" /\ parsed.delta # ""
        THEN [targetText |-> text \o parsed.delta,
              events |-> <<StreamEvent(<<text \o parsed.delta>>)>>]
        ELSE [targetText |-> text, events |-> <<>>]

\* handleStreamResponse(query, targetText, textFromResponse): the new
\* targetText and the callbacks made.
handleStreamResponse(text, textFromResponse) ==
    IF textFromResponse # "[DONE]"
    THEN LET parsed == parseDelta(textFromResponse)
         IN  IF parsed.thrown = ""
             THEN IF parsed.delta # ""
                  THEN [targetText |-> text \o parsed.delta,
                        events |-> <<StreamEvent(<<text \o parsed.delta>>)>>]
                  ELSE [targetText |-> text, events |-> <<>>]
             ELSE LET error == Thrown(parsed.thrown)
                  IN  IF isServiceError(error)
                      THEN [targetText |-> text,
                            events |-> <<handleGeneralError(ServiceError(
                                IF error.type = Undefined THEN "param" ELSE error.type,
                                IF error.message = Undefined THEN "Failed to parse JSON"
                                                             ELSE error.message,
                                error.addition))>>]
                      ELSE [targetText |-> text,
                            events |-> <<handleGeneralError(ServiceError(
                                "param", "An unknown error occurred", Undefined))>>]
    ELSE [targetText |-> text, events |-> <<>>]

\* The first index (1-based) at or after `from` of a line terminator, 0 if none.
lineEnd(buf, from) ==
    LET js == {j \in from..Len(buf) : CharAt(buf, j) \in LineTerminators}
    IN  IF js = {} THEN 0 ELSE SetMin(js)

\* Whether /data: (.*?})\n/ matches at index i: "data: ", then characters
\* other than line terminators up to a "}" that is followed by "\n".
matchesAt(buf, i) ==
    /\ SubSeq(buf, i, i + 5) = "data: "
    /\ LET j == lineEnd(buf, i + 6)
       IN  j > i + 6 /\ CharAt(buf, j) = "\n" /\ CharAt(buf, j - 1) = "}"

\* buffer.match(/data: (.*?})\n/): the leftmost match, as [index (0-based),
\* all (match[0]), group (match[1])]; index -1 when there is no match.
frameMatch(buf) ==
    LET starts == {i \in 1..(Len(buf) - 7) : matchesAt(buf, i)}
    IN  IF starts = {}
        THEN [index |-> -1, all |-> "", group |-> ""]
        ELSE LET i == SetMin(starts)
                 j == lineEnd(buf, i + 6)
             IN  [index |-> i - 1, all |-> SubSeq(buf, i, j),
                  group |-> SubSeq(buf, i + 6, j - 1)]

\* The while (true) loop of streamHandler: extract frames until none matches.
\* Returns the buffer, targetText, the callbacks made and one record per
\* extraction step.
RECURSIVE extractFrames(_, _, _, _)
extractFrames(buf, text, evs, steps) ==
    LET match == CHOOSE m \in {frameMatch(buf)} : TRUE
    IN  IF match.index >= 0
        THEN LET textFromResponse == Trim(match.group)
                 r == handleStreamResponse(text, textFromResponse)
                 step == [index |-> match.index, matched |-> match.all,
                          removed |-> SubSeq(buf, 1, Len(match.all)),
                          payload |-> textFromResponse,
                          before |-> text, after |-> r.targetText,
                          events |-> r.events]
             IN  extractFrames(Slice(buf, Len(match.all)), r.targetText,
                               evs \o r.events, Append(steps, step))
        ELSE [buffer |-> buf, targetText |-> text, events |-> evs, pass |-> steps]

\* streamData.text?.includes("Invalid token")
hasInvalidToken(text) == text # Undefined /\ Includes(text, "Invalid token")

\* Mutant of streamHandler: the buffer is set to the chunk, not extended by it.
streamHandlerNoCarry(buf, text, streamDataText) ==
    IF hasInvalidToken(streamDataText)
    THEN [buffer |-> buf, targetText |-> text,
          events |-> <<handleGeneralError(ServiceError("secretKey", "bad-api-keys",
                                                       "fill-in-api-keys"))>>,
          pass |-> <<>>]
    ELSE IF streamDataText # Undefined
    THEN extractFrames(streamDataText, text, <<>>, <<>>)
    ELSE [buffer |-> buf, targetText |-> text, events |-> <<>>, pass |-> <<>>]

\* Mutant of streamHandler: the error for "Invalid token" is reported and the
\* chunk is parsed all the same (no return after the error).
streamHandlerTokenContinues(buf, text, streamDataText) ==
    IF streamDataText # Undefined
    THEN extractFrames(buf \o streamDataText, text,
                       IF hasInvalidToken(streamDataText)
                       THEN <<handleGeneralError(ServiceError("secretKey", "bad-api-keys",
                                                              "fill-in-api-keys"))>>
                       ELSE <<>>,
                       <<>>)
    ELSE [buffer |-> buf, targetText |-> text, events |-> <<>>, pass |-> <<>>]

\* translate's streamHandler(streamData), on the closure state (buf, text).
streamHandler(buf, text, streamDataText) ==
    IF hasInvalidToken(streamDataText)
    THEN [buffer |-> buf, targetText |-> text,
          events |-> <<handleGeneralError(ServiceError("secretKey", "bad-api-keys",
                                                       "fill-in-api-keys"))>>,
          pass |-> <<>>]
    ELSE IF streamDataText # Undefined
    THEN extractFrames(buf \o streamDataText, text, <<>>, <<>>)
    ELSE [buffer |-> buf, targetText |-> text, events |-> <<>>, pass |-> <<>>]

\* Mutant of streamEndHandler: text that was accumulated is delivered as the
\* result whatever the status is.
streamEndHandlerTextFirst(text, statusCode) ==
    IF statusCode >= 400 /\ text = ""
    THEN handleGeneralError([response |-> statusCode, type |-> Undefined,
                             message |-> Undefined, addition |-> Undefined])
    ELSE ResultEvent(<<text>>)

\* translate's handler(result) of the stream request.
streamEndHandler(text, statusCode) ==
    IF statusCode >= 400
    THEN handleGeneralError([response |-> statusCode, type |-> Undefined,
                             message |-> Undefined, addition |-> Undefined])
    ELSE ResultEvent(<<text>>)

-----------------------------------------------------------------------------
(* Request construction.                                                   *)

Letters ==
    {"a", "b", "c", "d", "e", "f", "g", "h", "i", "j", "k", "l", "m", "n", "o", "p",
     "q", "r", "s", "t", "u", "v", "w", "x", "y", "z",
     "A", "B", "C", "D", "E", "F", "G", "H", "I", "J", "K", "L", "M", "N", "O", "P",
     "Q", "R", "S", "T", "U", "V", "W", "X", "Y", "Z"}

\* /^[a-z]+:\/\//i.test(url)
hasProtocol(url) ==
    \E k \in 1..(Len(url) - 3) :
        /\ \A i \in 1..k : CharAt(url, i) \in Letters
        /\ SubSeq(url, k + 1, k + 3) = "://"

ensureHttpsAndNoTrailingSlash(url) ==
    LET modifiedUrl == IF hasProtocol(url) THEN url ELSE "https://" \o url
    IN  IF EndsWith(modifiedUrl, "/") THEN SliceEnd(modifiedUrl, 1) ELSE modifiedUrl

\* apiUrl || "https://api.openai.com"
orDefaultUrl(apiUrl) == IF apiUrl = "" THEN "https://api.openai.com" ELSE apiUrl

\* s.split(sep) for a one-character separator, as a sequence of pieces
RECURSIVE split(_, _)
split(s, sep) ==
    LET cs == {i \in 1..Len(s) : CharAt(s, i) = sep}
    IN  IF cs = {} THEN <<s>>
        ELSE LET i == SetMin(cs)
             IN  <<SubSeq(s, 1, i - 1)>> \o split(Slice(s, i), sep)

\* getApiKey(apiKeys): the keys one of which Math.random() selects.
getApiKey(apiKeys) ==
    LET trimmedApiKeys == IF EndsWith(apiKeys, ",") THEN SliceEnd(apiKeys, 1) ELSE apiKeys
        apiKeySelection == split(trimmedApiKeys, ",")
    IN  {Trim(apiKeySelection[i]) : i \in 1..Len(apiKeySelection)}

buildHeader(isAzureServiceProvider, apiKey) ==
    [contentType |-> "application/json",
     name |-> IF isAzureServiceProvider THEN "api-key" ELSE "Authorization",
     value |-> IF isAzureServiceProvider THEN apiKey ELSE "Bearer " \o apiKey]

\* langMap.get(query.detectTo): the supported-language table (lang.ts), of
\* which two entries are kept.
SupportedLanguages == {"en", "zh-Hans"}

\* s.replace(pattern, replacement) for a string pattern: the first occurrence
\* of the pattern is replaced.
replaceFirst(s, pattern, replacement) ==
    LET at == {i \in 1..(Len(s) - Len(pattern) + 1) :
                  SubSeq(s, i, i + Len(pattern) - 1) = pattern}
    IN  IF at = {} THEN s
        ELSE LET i == SetMin(at)
             IN  SubSeq(s, 1, i - 1) \o replacement \o Slice(s, i + Len(pattern) - 1)

\* utils.replacePromptKeywords(prompt, query): the placeholders of a custom
\* prompt are replaced by the query's text and language codes; an empty
\* prompt stays empty.
replacePromptKeywords(prompt, q) ==
    IF prompt = "" THEN prompt
    ELSE replaceFirst(replaceFirst(replaceFirst(prompt, "$text", q.text),
                                   "$sourceLang", q.detectFrom),
                      "$targetLang", q.detectTo)

\* const.languageMapping[lang] || DEFAULT_PROMPT: the prompt of a source
\* language and the suffix of the detailed mode; two entries of the table are
\* kept, their texts abbreviated.
languageMapping(lang) ==
    IF lang \in {"en", "zh-Hans"}
    THEN [prompt |-> "polish:" \o lang, detailed |-> " detailed:" \o lang]
    ELSE [prompt |-> "polish", detailed |-> " detailed"]

\* generateSystemPrompt(basePrompt, polishingMode, query)
generateSystemPrompt(basePrompt, polishingMode, q) ==
    LET isDetailedPolishingMode == polishingMode = "detailed"
        promptInfo == languageMapping(q.detectFrom)
        systemPrompt == IF basePrompt # "" THEN basePrompt ELSE promptInfo.prompt
    IN  IF isDetailedPolishingMode THEN systemPrompt \o promptInfo.detailed
        ELSE systemPrompt

\* buildRequestBody(model, query); the prompts and the polishing mode are read
\* from $option.
buildRequestBody(modelValue, q) ==
    LET systemPrompt == generateSystemPrompt(
                            replacePromptKeywords(option.customSystemPrompt, q),
                            option.polishingMode, q)
        userPrompt == IF option.customUserPrompt # ""
                      THEN replacePromptKeywords(option.customUserPrompt, q)
                               \o ":\n\n\"" \o q.text \o "\""
                      ELSE q.text
    IN  [model |-> modelValue, temperature |-> "0.2", max_tokens |-> 1000, top_p |-> 1,
         frequency_penalty |-> 1, presence_penalty |-> 1,
         messages |-> <<[role |-> "system", content |-> systemPrompt],
                        [role |-> "user", content |-> userPrompt]>>,
         stream |-> Undefined]

\* Number(stream) as a condition, for the values of the `stream` menu.
streamEnabled(stream) == stream = "1"

\* The errors translate reports before it builds the request; none of the
\* four checks returns.
translateChecks(opt, q) ==
    LET baseUrl == ensureHttpsAndNoTrailingSlash(orDefaultUrl(opt.apiUrl))
    IN  (IF q.detectTo \notin SupportedLanguages
         THEN <<handleGeneralError(ServiceError("unsupportedLanguage", "unsupported-language",
                                                "unsupported-language"))>>
         ELSE <<>>)
        \o
        (IF opt.model = "custom" /\ opt.customModel = ""
         THEN <<handleGeneralError(ServiceError("param", "no-custom-model",
                                                "fill-in-custom-model"))>>
         ELSE <<>>)
        \o
        (IF opt.apiKeys = ""
         THEN <<handleGeneralError(ServiceError("secretKey", "no-api-keys",
                                                "fill-in-api-keys"))>>
         ELSE <<>>)
        \o
        (IF Includes(baseUrl, "openai.azure.com") /\ opt.deploymentName = ""
         THEN <<handleGeneralError(ServiceError("secretKey", "no-deployment-name",
                                                "fill-in-deployment-name"))>>
         ELSE <<>>)

\* baseUrl + apiUrlPath of translate.
translateUrl(opt) ==
    LET baseUrl == ensureHttpsAndNoTrailingSlash(orDefaultUrl(opt.apiUrl))
        apiUrlPath == IF Includes(baseUrl, "gateway.ai.cloudflare.com")
                      THEN "/chat/completions" ELSE "/v1/chat/completions"
        apiVersionQuery == IF opt.apiVersion # "" THEN "?api-version=" \o opt.apiVersion
                           ELSE "?api-version=2023-03-15-preview"
        isAzureServiceProvider == Includes(baseUrl, "openai.azure.com")
    IN  IF isAzureServiceProvider /\ opt.deploymentName # ""
        THEN baseUrl \o "/openai/deployments/" \o opt.deploymentName
                     \o "/chat/completions" \o apiVersionQuery
        ELSE baseUrl \o apiUrlPath

\* The request translate hands to $http.request / $http.streamRequest.
translateRequest(opt, q, apiKey) ==
    LET baseUrl == ensureHttpsAndNoTrailingSlash(orDefaultUrl(opt.apiUrl))
        isAzureServiceProvider == Includes(baseUrl, "openai.azure.com")
        modelValue == IF opt.model = "custom" THEN opt.customModel ELSE opt.model
        body == buildRequestBody(modelValue, q)
    IN  [api |-> IF streamEnabled(opt.stream) THEN "streamRequest" ELSE "request",
         method |-> "POST",
         url |-> translateUrl(opt),
         header |-> buildHeader(isAzureServiceProvider, apiKey),
         body |-> IF streamEnabled(opt.stream) THEN [body EXCEPT !.stream = "true"] ELSE body]

-----------------------------------------------------------------------------
(* The response normaliser.                                                *)

\* The characters of /^(...)|(...)$/g in handleGeneralResponse.  The straight
\* double quote is itself; the non-ASCII marks are written with stand-ins:
\*   "("  U+300E  left white corner bracket     ")"  U+300F  right white corner bracket
\*   "["  U+300C  left corner bracket           "]"  U+300D  right corner bracket
\*   "{"  U+201C  left double quotation mark    "}"  U+201D  right double quotation mark
OpenQuotes == {"(", "[", "\"", "{"}

CloseQuotes == {")", "]", "\"", "}"}

\* Mutant of stripQuotes: the marks are removed only as a pair.
stripQuotesPaired(s) ==
    IF Len(s) >= 2 /\ CharAt(s, 1) \in OpenQuotes /\ CharAt(s, Len(s)) \in CloseQuotes
    THEN SubSeq(s, 2, Len(s) - 1) ELSE s

\* targetText.replace(/^(open)|(close)$/g, ""): an opening mark at index 0
\* is removed, and a closing mark that is then the last character is removed.
stripQuotes(s) ==
    LET s1 == IF Len(s) >= 1 /\ CharAt(s, 1) \in OpenQuotes THEN Slice(s, 1) ELSE s
    IN  IF Len(s1) >= 1 /\ CharAt(s1, Len(s1)) \in CloseQuotes THEN SliceEnd(s1, 1) ELSE s1

\* if (targetText.endsWith('" =>')) targetText = targetText.slice(0, -4)
stripArrow(s) == IF EndsWith(s, "\" =>") THEN SliceEnd(s, 4) ELSE s

\* JSON.stringify(result) of a response without choices.
stringify(r) ==
    "{\"data\":" \o (IF r.hasChoices THEN "{\"choices\":[]}" ELSE "{}")
        \o ",\"response\":{\"statusCode\":" \o ToString(r.statusCode) \o "}}"

\* Mutant of handleGeneralResponse: the guard is `choices.length === 0` alone,
\* so an absent `choices` throws.
handleGeneralResponseNoAbsentCheck(r) ==
    IF ~ r.hasChoices
    THEN [events |-> <<>>, thrown |-> "TypeError"]
    ELSE IF Len(r.choices) = 0
    THEN [events |-> <<handleGeneralError(ServiceError("api", "no-result", stringify(r)))>>,
          thrown |-> ""]
    ELSE IF r.choices[1] = Undefined
    THEN [events |-> <<>>, thrown |-> "TypeError"]
    ELSE [events |-> <<ResultEvent(split(stripArrow(stripQuotes(Trim(r.choices[1]))), "\n"))>>,
          thrown |-> ""]

\* handleGeneralResponse(query, result): the callbacks made, and the error
\* thrown (if any) into translate's catch.
handleGeneralResponse(r) ==
    IF ~ r.hasChoices \/ Len(r.choices) = 0
    THEN [events |-> <<handleGeneralError(ServiceError("api", "no-result", stringify(r)))>>,
          thrown |-> ""]
    ELSE IF r.choices[1] = Undefined
    THEN [events |-> <<>>, thrown |-> "TypeError"]
    ELSE [events |-> <<ResultEvent(split(stripArrow(stripQuotes(Trim(r.choices[1]))), "\n"))>>,
          thrown |-> ""]

\* The body of translate's async block for a plain request, catch included.
translateResponse(r) ==
    IF r.rejected
    THEN <<handleGeneralError(Thrown("network-error"))>>
    ELSE IF r.error
    THEN <<handleGeneralError([response |-> r.statusCode, type |-> Undefined,
                               message |-> Undefined, addition |-> stringify(r)])>>
    ELSE LET h == handleGeneralResponse(r)
         IN  IF h.thrown = "" THEN h.events
             ELSE h.events \o <<handleGeneralError(Thrown(h.thrown))>>

-----------------------------------------------------------------------------
(* pluginValidate.                                                         *)

\* The configuration errors of pluginValidate; each returns.
validateChecks(opt) ==
    IF opt.apiKeys = ""
    THEN <<handleValidateError(ServiceError("secretKey", "no-api-keys", "fill-in-api-keys"))>>
    ELSE IF Includes(opt.apiUrl, "openai.azure.com") /\ opt.deploymentName = ""
    THEN <<handleValidateError(ServiceError("secretKey", "no-deployment-name",
                                            "fill-in-deployment-name"))>>
    ELSE <<>>

validateRequest(opt, apiKey) ==
    LET baseUrl == ensureHttpsAndNoTrailingSlash(orDefaultUrl(opt.apiUrl))
        isAzureServiceProvider == Includes(opt.apiUrl, "openai.azure.com")
        apiUrlPath == IF isAzureServiceProvider
                      THEN "/openai/deployments/" \o opt.deploymentName
                               \o "/chat/completions?api-version=2023-05-15"
                      ELSE IF Includes(baseUrl, "gateway.ai.cloudflare.com")
                      THEN "/models" ELSE "/v1/models"
    IN  [api |-> "request",
         method |-> IF isAzureServiceProvider THEN "POST" ELSE "GET",
         url |-> baseUrl \o apiUrlPath,
         header |-> buildHeader(isAzureServiceProvider, apiKey),
         body |-> IF isAzureServiceProvider
                  THEN [messages |-> <<[role |-> "system",
                                        content |-> "You are a helpful assistant."],
                                       [role |-> "user", content |-> "Test connection."]>>,
                        max_tokens |-> 5]
                  ELSE [messages |-> <<>>, max_tokens |-> 0]]

\* The handler of pluginValidate's request: the callbacks made.  A response
\* without `choices` makes `choices.length` throw inside the handler, where
\* nothing catches it.
validateResponse(opt, r) ==
    IF r.error
    THEN <<handleValidateError(ServiceError(reason(r.statusCode), "data.error", Undefined))>>
    ELSE IF Includes(opt.apiUrl, "openai.azure.com")
    THEN IF r.hasChoices /\ Len(r.choices) > 0 THEN <<ValidEvent>> ELSE <<>>
    ELSE IF r.hasModels /\ r.nModels > 0 THEN <<ValidEvent>> ELSE <<>>

-----------------------------------------------------------------------------
(* Inputs.                                                                 *)

\* Bounds of the model.
MaxChunks == 3

MaxFrames == 2

MaxLen == 4

\* The lines a streamed body is made of.
FrameHi == "data: " \o DeltaOpen \o "Hi" \o DeltaClose \o "\n"

FrameThere == "data: " \o DeltaOpen \o " there" \o DeltaClose \o "\n"

FrameToken == "data: " \o DeltaOpen \o "Invalid token" \o DeltaClose \o "\n"

FrameBad == "data: {oops}\n"

FrameEmpty == "data: {}\n"

FrameDone == "data: [DONE]\n"

BlankLine == "\n"

CommentLine == ": OPENROUTER PROCESSING\n"

Segments == {FrameHi, FrameBad, FrameEmpty, FrameDone, BlankLine}

\* The bodies of at most n lines.
RECURSIVE bodies(_)
bodies(n) ==
    IF n = 0 THEN {""}
    ELSE bodies(n - 1) \cup {w \o seg : w \in bodies(n - 1), seg \in Segments}

\* Longer bodies: the stream of the specification's example, the same with the
\* blank line that ends a server-sent event, one led by comment lines, and one
\* whose delta is the text "Invalid token".
LongWires ==
    {FrameHi \o FrameThere \o FrameDone,
     FrameHi \o BlankLine \o FrameThere \o BlankLine \o FrameDone \o BlankLine,
     CommentLine \o BlankLine \o CommentLine \o BlankLine \o FrameHi \o BlankLine,
     FrameToken \o FrameDone}

Wires == bodies(MaxFrames) \cup LongWires

CallWires == {FrameEmpty}

Statuses == {200, 401, 500}

NoResult ==
    [rejected |-> FALSE, error |-> FALSE, statusCode |-> 0, hasChoices |-> FALSE,
     choices |-> <<>>, hasModels |-> FALSE, nModels |-> 0]

\* The responses to translate's plain request.
TranslateResponses ==
    {[NoResult EXCEPT !.rejected = TRUE]}
    \cup {[NoResult EXCEPT !.error = TRUE, !.statusCode = st] : st \in {401, 500}}
    \cup {[NoResult EXCEPT !.statusCode = 200]}
    \cup {[NoResult EXCEPT !.statusCode = 200, !.hasChoices = TRUE, !.choices = ch] :
            ch \in {<<>>, <<Undefined>>, <<"Hi">>, <<" \"Hi\nthere\" ">>}}

\* The responses to pluginValidate's request.
ValidateResponses ==
    {[NoResult EXCEPT !.error = TRUE, !.statusCode = st] : st \in Statuses}
    \cup {[NoResult EXCEPT !.statusCode = 200]}
    \cup {[NoResult EXCEPT !.statusCode = 200, !.hasChoices = TRUE, !.choices = ch,
                           !.hasModels = TRUE, !.nModels = Len(ch)] :
            ch \in {<<>>, <<"Hi">>}}

\* The characters of the contents enumerated for the normaliser.
Alphabet == {"\"", "{", "}", "a", "\n", " ", "=", ">"}

RECURSIVE texts(_)
texts(n) ==
    IF n = 0 THEN {""}
    ELSE texts(n - 1) \cup {t \o ch : t \in texts(n - 1), ch \in Alphabet}

TextResponses ==
    {[NoResult EXCEPT !.statusCode = 200, !.hasChoices = TRUE, !.choices = <<t>>] :
        t \in texts(MaxLen)}

\* The configurations: every combination of the connection options, with at
\* most one of the prompt options away from its default.
Options ==
    {o \in [apiKeys : {"", "sk-a,sk-b"},
            apiUrl : {"", "https://api.openai.com/", "res.openai.azure.com",
                      "https://gateway.ai.cloudflare.com/v1/acct/gw/openai"},
            apiVersion : {""},
            customModel : {"", "my-model"},
            customSystemPrompt : {"", "Fix $text"},
            customUserPrompt : {"", "Polish"},
            deploymentName : {"", "dep"},
            model : {"gpt-3.5-turbo", "custom"},
            polishingMode : {"simplicity", "detailed"},
            stream : {"0", "1"}] :
        Cardinality({f \in {"customSystemPrompt", "customUserPrompt", "polishingMode"} :
                        o[f] \notin {"", "simplicity"}}) <= 1}

StreamOptions ==
    {[apiKeys |-> "sk-a", apiUrl |-> "", apiVersion |-> "", customModel |-> "",
      customSystemPrompt |-> "", customUserPrompt |-> "", deploymentName |-> "",
      model |-> "gpt-3.5-turbo", polishingMode |-> "simplicity", stream |-> "1"]}

PlainOptions ==
    {[apiKeys |-> "sk-a", apiUrl |-> "", apiVersion |-> "", customModel |-> "",
      customSystemPrompt |-> "", customUserPrompt |-> "", deploymentName |-> "",
      model |-> "gpt-3.5-turbo", polishingMode |-> "simplicity", stream |-> "0"]}

Queries == [detectFrom : {"en"}, detectTo : {"en", "tlh"}, text : {"Helo wrld"}]

GoodQueries == {q \in Queries : q.detectTo \in SupportedLanguages}

NoQuery == [detectFrom |-> "", detectTo |-> "", text |-> ""]

-----------------------------------------------------------------------------
(* The state machine.                                                      *)

\* One call (q1) is made; opts, kinds and queries are its possible inputs.
InitWith(opts, kinds, queries) ==
    /\ option \in opts
    /\ \E k \in kinds, q \in queries :
        /\ kind = [c \in CallIds |-> IF c = "q1" THEN k ELSE "translate"]
        /\ query = [c \in CallIds |->
                      IF c = "q1" /\ k = "translate" THEN q ELSE NoQuery]
    /\ pc = [c \in CallIds |-> IF c = "q1" THEN "ready" ELSE "unused"]
    /\ http = [c \in CallIds |-> <<>>]
    /\ events = [c \in CallIds |-> <<>>]
    /\ wire = [c \in CallIds |-> ""]
    /\ delivered = [c \in CallIds |-> ""]
    /\ chunks = [c \in CallIds |-> 0]
    /\ buffer = [c \in CallIds |-> ""]
    /\ targetText = [c \in CallIds |-> ""]
    /\ consumed = [c \in CallIds |-> ""]
    /\ frames = [c \in CallIds |-> <<>>]
    /\ pass = [c \in CallIds |-> <<>>]
    /\ chunk = [c \in CallIds |-> Undefined]
    /\ dropped = [c \in CallIds |-> 0]
    /\ last = [c \in CallIds |-> NoResult]

\* translate(query), up to the point where the request is handed to $http.
\* The body the server will stream is fixed here (w, from the set W).
Translate(c, W) ==
    /\ pc[c] = "ready" /\ kind[c] = "translate"
    /\ events' = [events EXCEPT ![c] = @ \o translateChecks(option, query[c])]
    /\ \E apiKey \in getApiKey(option.apiKeys) :
           http' = [http EXCEPT ![c] = Append(@, translateRequest(option, query[c], apiKey))]
    /\ IF streamEnabled(option.stream)
       THEN /\ \E w \in W : wire' = [wire EXCEPT ![c] = w]
            /\ pc' = [pc EXCEPT ![c] = "streaming"]
       ELSE /\ wire' = wire
            /\ pc' = [pc EXCEPT ![c] = "awaiting"]
    /\ UNCHANGED <<option, kind, query, delivered, chunks, buffer, targetText, consumed,
                   frames, pass, chunk, dropped, last>>

\* Mutant of closureOf: targetText and buffer are declared outside translate,
\* so that every call's handler works on the same two variables.
closureShared(c) == "q1"

\* The closure of call c's streamHandler: `let targetText` and `let buffer`
\* are declared inside translate, one pair per call.
closureOf(c) == c

\* The transport delivers the next n characters of the body to streamHandler,
\* n being the rest of the body or one of the sizes given.
StreamChunkOf(c, sizes) ==
    /\ pc[c] = "streaming" /\ wire[c] # "" /\ chunks[c] < MaxChunks
    /\ \E n \in {k \in 1..Len(wire[c]) : k \in sizes \/ k = Len(wire[c])} :
        /\ chunks[c] + 1 = MaxChunks => n = Len(wire[c])
        /\ \E text \in {SubSeq(wire[c], 1, n)} :
           \E r \in {streamHandler(buffer[closureOf(c)], targetText[closureOf(c)], text)} :
               /\ wire' = [wire EXCEPT ![c] = Slice(@, n)]
               /\ delivered' = [delivered EXCEPT ![c] = @ \o text]
               /\ chunk' = [chunk EXCEPT ![c] = text]
               /\ buffer' = [buffer EXCEPT ![closureOf(c)] = r.buffer]
               /\ targetText' = [targetText EXCEPT ![closureOf(c)] = r.targetText]
               /\ events' = [events EXCEPT ![c] = @ \o r.events]
               /\ pass' = [pass EXCEPT ![c] = r.pass]
               /\ frames' = [frames EXCEPT ![c] =
                                @ \o [i \in 1..Len(r.pass) |-> r.pass[i].payload]]
               /\ consumed' = [consumed EXCEPT ![c] =
                                  IF hasInvalidToken(text) THEN @ ELSE @ \o text]
               /\ dropped' = [dropped EXCEPT ![c] =
                                 IF hasInvalidToken(text) THEN @ + 1 ELSE @]
    /\ chunks' = [chunks EXCEPT ![c] = @ + 1]
    /\ UNCHANGED <<option, pc, kind, query, http, last>>

\* The transport delivers a chunk of any length.
StreamChunk(c) == StreamChunkOf(c, 1..Len(wire[c]))

\* The transport calls streamHandler with an event that carries no text.
StreamNoText(c) ==
    /\ pc[c] = "streaming" /\ chunks[c] + 1 < MaxChunks
    /\ \E r \in {streamHandler(buffer[c], targetText[c], Undefined)} :
           /\ buffer' = [buffer EXCEPT ![c] = r.buffer]
           /\ targetText' = [targetText EXCEPT ![c] = r.targetText]
           /\ events' = [events EXCEPT ![c] = @ \o r.events]
           /\ pass' = [pass EXCEPT ![c] = r.pass]
    /\ chunk' = [chunk EXCEPT ![c] = Undefined]
    /\ chunks' = [chunks EXCEPT ![c] = @ + 1]
    /\ UNCHANGED <<option, pc, kind, query, http, wire, delivered, consumed, frames,
                   dropped, last>>

\* The body has been delivered: the transport calls handler(result).
StreamEnd(c, S) ==
    /\ pc[c] = "streaming" /\ wire[c] = ""
    /\ \E st \in S :
        /\ events' = [events EXCEPT ![c] = Append(@, streamEndHandler(targetText[closureOf(c)], st))]
        /\ last' = [last EXCEPT ![c] = [NoResult EXCEPT !.statusCode = st]]
    /\ pc' = [pc EXCEPT ![c] = "done"]
    /\ UNCHANGED <<option, kind, query, http, wire, delivered, chunks, buffer, targetText,
                   consumed, frames, pass, chunk, dropped>>

\* $http.streamRequest rejects: translate's catch reports the error.
StreamReject(c) ==
    /\ pc[c] = "streaming"
    /\ events' = [events EXCEPT ![c] = Append(@, handleGeneralError(Thrown("network-error")))]
    /\ last' = [last EXCEPT ![c] = [NoResult EXCEPT !.rejected = TRUE]]
    /\ pc' = [pc EXCEPT ![c] = "done"]
    /\ UNCHANGED <<option, kind, query, http, wire, delivered, chunks, buffer, targetText,
                   consumed, frames, pass, chunk, dropped>>

\* $http.request settles with r (from the set R): the rest of translate's
\* async block runs.
Respond(c, R) ==
    /\ pc[c] = "awaiting" /\ kind[c] = "translate"
    /\ \E r \in R :
        /\ events' = [events EXCEPT ![c] = @ \o translateResponse(r)]
        /\ last' = [last EXCEPT ![c] = r]
    /\ pc' = [pc EXCEPT ![c] = "done"]
    /\ UNCHANGED <<option, kind, query, http, streamVars>>

\* pluginValidate(completion), up to the point where the request is handed
\* to $http (or a configuration error has been reported).
PluginValidate(c) ==
    /\ pc[c] = "ready" /\ kind[c] = "validate"
    /\ IF validateChecks(option) # <<>>
       THEN /\ events' = [events EXCEPT ![c] = @ \o validateChecks(option)]
            /\ http' = http
            /\ pc' = [pc EXCEPT ![c] = "done"]
       ELSE /\ events' = events
            /\ \E apiKey \in getApiKey(option.apiKeys) :
                   http' = [http EXCEPT ![c] = Append(@, validateRequest(option, apiKey))]
            /\ pc' = [pc EXCEPT ![c] = "awaiting"]
    /\ UNCHANGED <<option, kind, query, streamVars, last>>

\* The handler of pluginValidate's request runs on the response r.
ValidateRespond(c, R) ==
    /\ pc[c] = "awaiting" /\ kind[c] = "validate"
    /\ \E r \in R :
        /\ events' = [events EXCEPT ![c] = @ \o validateResponse(option, r)]
        /\ last' = [last EXCEPT ![c] = r]
    /\ pc' = [pc EXCEPT ![c] = "done"]
    /\ UNCHANGED <<option, kind, query, http, streamVars>>

\* Every configuration, one validate or translate call, short bodies.
Init == InitWith(Options, {"translate", "validate"}, Queries)

Next ==
    \E c \in CallIds :
        \/ Translate(c, CallWires)
        \/ StreamChunk(c)
        \/ StreamNoText(c)
        \/ StreamEnd(c, Statuses)
        \/ StreamReject(c)
        \/ Respond(c, TranslateResponses)
        \/ PluginValidate(c)
        \/ ValidateRespond(c, ValidateResponses)

Spec == Init /\ [][Next]_vars

\* One streaming translate call of a supported language, every body of Wires.
InitStream == InitWith(StreamOptions, {"translate"}, GoodQueries)

NextStream ==
    \E c \in CallIds :
        \/ Translate(c, Wires)
        \/ StreamChunk(c)
        \/ StreamNoText(c)
        \/ StreamEnd(c, Statuses)

SpecStream == InitStream /\ [][NextStream]_vars

\* One plain translate call, every content of at most MaxLen characters.
InitText == InitWith(PlainOptions, {"translate"}, GoodQueries)

NextText ==
    \E c \in CallIds :
        \/ Translate(c, {""})
        \/ Respond(c, TextResponses)

SpecText == InitText /\ [][NextText]_vars

\* Azure configurations, with and without a configured apiVersion.
AzureOptions ==
    [apiKeys : {"", "sk-a,sk-b"},
     apiUrl : {"res.openai.azure.com"},
     apiVersion : {"", "2024-02-01"},
     customModel : {"", "my-model"},
     customSystemPrompt : {""},
     customUserPrompt : {""},
     deploymentName : {"", "dep"},
     model : {"gpt-3.5-turbo", "custom"},
     polishingMode : {"simplicity"},
     stream : {"0", "1"}]

InitAzure == InitWith(AzureOptions, {"translate", "validate"}, Queries)

SpecAzure == InitAzure /\ [][Next]_vars

\* Two streaming translate calls in flight at once.  Their chunks are of
\* ChunkSize characters (or the rest of the body) and interleave freely.
ChunkSize == 30

TwoWires ==
    {FrameHi \o FrameThere \o FrameDone,
     FrameBad \o FrameHi,
     BlankLine \o FrameHi \o BlankLine}

InitTwo ==
    /\ option \in StreamOptions
    /\ kind = [c \in CallIds |-> "translate"]
    /\ \E q \in GoodQueries : query = [c \in CallIds |-> q]
    /\ pc = [c \in CallIds |-> "ready"]
    /\ http = [c \in CallIds |-> <<>>]
    /\ events = [c \in CallIds |-> <<>>]
    /\ wire = [c \in CallIds |-> ""]
    /\ delivered = [c \in CallIds |-> ""]
    /\ chunks = [c \in CallIds |-> 0]
    /\ buffer = [c \in CallIds |-> ""]
    /\ targetText = [c \in CallIds |-> ""]
    /\ consumed = [c \in CallIds |-> ""]
    /\ frames = [c \in CallIds |-> <<>>]
    /\ pass = [c \in CallIds |-> <<>>]
    /\ chunk = [c \in CallIds |-> Undefined]
    /\ dropped = [c \in CallIds |-> 0]
    /\ last = [c \in CallIds |-> NoResult]

NextTwo ==
    \E c \in CallIds :
        \/ Translate(c, TwoWires)
        \/ StreamChunkOf(c, {ChunkSize})
        \/ StreamEnd(c, Statuses)

SpecTwo == InitTwo /\ [][NextTwo]_vars

-----------------------------------------------------------------------------
(* Properties.                                                             *)

isCompletion(e) == e.cb \in {"onCompletion", "completion"}

isPartial(e) == e.cb = "onStream"

\* The completion callbacks made for call c, in order.
completionsOf(c) == SelectSeq(events[c], isCompletion)

\* The accumulated texts passed to query.onStream for call c, in order.
partialsOf(evs) ==
    LET ps == SelectSeq(evs, isPartial)
    IN  [i \in 1..Len(ps) |-> ps[i].toParagraphs[1]]

hasError(c, type) == \E i \in 1..Len(events[c]) :
    events[c][i].kind = "error" /\ events[c][i].type = type

isAzure(opt) ==
    Includes(ensureHttpsAndNoTrailingSlash(orDefaultUrl(opt.apiUrl)), "openai.azure.com")

\* C1: every translate call invokes query.onCompletion exactly once: never
\* more than once, and once the transport has terminated (the call is done)
\* not zero times.
C1_CompletionExactlyOnce ==
    \A c \in CallIds :
        kind[c] = "translate" /\ pc[c] # "unused" =>
            /\ Len(completionsOf(c)) <= 1
            /\ pc[c] = "done" => Len(completionsOf(c)) = 1

\* C5: a translate call whose target language is not supported reports
\* unsupportedLanguage and hands no request to the transport.
C5_UnsupportedLanguageNoRequest ==
    \A c \in CallIds :
        /\ kind[c] = "translate" /\ pc[c] \notin {"unused", "ready"}
        /\ query[c].detectTo \notin SupportedLanguages
        => hasError(c, "unsupportedLanguage") /\ Len(http[c]) = 0

\* C6: on Azure with an empty deploymentName both pluginValidate and translate
\* report secretKey and issue no request; off Azure the request (URL, headers,
\* body) is the one built with deploymentName left empty.
C6_AzureNeedsDeploymentName ==
    \A c \in CallIds :
        pc[c] \notin {"unused", "ready"} =>
            /\ isAzure(option) /\ option.deploymentName = ""
               => hasError(c, "secretKey") /\ Len(http[c]) = 0
            /\ ~ isAzure(option) =>
                 \A i \in 1..Len(http[c]) :
                    LET noName == [option EXCEPT !.deploymentName = ""]
                    IN  /\ http[c][i].url =
                             (IF kind[c] = "translate" THEN translateUrl(noName)
                              ELSE validateRequest(noName, "").url)
                        /\ http[c][i].header.name = "Authorization"

\* Whether the response to pluginValidate's request is a success.
validatesOk(opt, r) ==
    /\ ~ r.error
    /\ IF isAzure(opt) THEN r.hasChoices /\ Len(r.choices) >= 1
                       ELSE r.hasModels /\ r.nModels >= 1

\* C7: once pluginValidate's call is over, completion has been invoked exactly
\* once: with result true for a success, with an error for anything else.
C7_ValidateAlwaysResolves ==
    \A c \in CallIds :
        kind[c] = "validate" /\ pc[c] = "done" =>
            /\ Len(completionsOf(c)) = 1
            /\ Len(http[c]) > 0 =>
                 IF validatesOk(option, last[c])
                 THEN completionsOf(c)[1] = ValidEvent
                 ELSE completionsOf(c)[1].kind = "error"

\* The callbacks of a translate call that follow those of its up-front checks.
afterChecks(c) ==
    SubSeq(events[c], Len(translateChecks(option, query[c])) + 1, Len(events[c]))

\* A plain (non-streaming) translate call whose response has been handled by
\* handleGeneralResponse.
normalised(c) ==
    /\ kind[c] = "translate" /\ pc[c] = "done" /\ ~ streamEnabled(option.stream)
    /\ ~ last[c].rejected /\ ~ last[c].error

\* C8: handleGeneralResponse, given a response whose choices are absent or
\* empty, makes exactly one callback: an `api` error whose addition is the
\* serialized response; it delivers no result.
C8_NoChoicesIsApiError ==
    \A c \in CallIds :
        normalised(c) /\ (~ last[c].hasChoices \/ Len(last[c].choices) = 0) =>
            /\ Len(afterChecks(c)) = 1
            /\ afterChecks(c)[1].cb = "onCompletion"
            /\ afterChecks(c)[1].kind = "error"
            /\ afterChecks(c)[1].type = "api"
            /\ afterChecks(c)[1].addition =
                 (IF last[c].hasChoices
                  THEN "{\"data\":{\"choices\":[]},\"response\":{\"statusCode\":200}}"
                  ELSE "{\"data\":{},\"response\":{\"statusCode\":200}}")

\* C8 witness: a response with no choices member has been answered with the
\* api error.
C8_Witness ==
    \E c \in CallIds :
        /\ normalised(c) /\ ~ last[c].hasChoices
        /\ Len(afterChecks(c)) = 1 /\ afterChecks(c)[1].type = "api"

\* The paragraphs of a sequence joined by newlines: the text they are split from.
RECURSIVE joinLines(_)
joinLines(ps) ==
    IF Len(ps) = 0 THEN ""
    ELSE IF Len(ps) = 1 THEN ps[1]
    ELSE ps[1] \o "\n" \o joinLines(Tail(ps))

\* The content of the first choice of the response handled for call c, trimmed.
trimmedContent(c) == Trim(last[c].choices[1])

\* The text the paragraphs of call c's result were split from.
resultText(c) == joinLines(afterChecks(c)[1].toParagraphs)

\* s without a trailing `" =>`.
withoutArrow(s) ==
    IF Len(s) >= 4 /\ SubSeq(s, Len(s) - 3, Len(s)) = "\" =>"
    THEN SubSeq(s, 1, Len(s) - 4) ELSE s

\* A plain translate call whose response carried a content string.
hasContent(c) ==
    /\ normalised(c) /\ last[c].hasChoices /\ Len(last[c].choices) > 0
    /\ last[c].choices[1] # Undefined

\* C9 (as claimed): the quotation marks are removed as a matching pair only: one
\* at the start together with one at the end; a text with a mark at one end
\* only keeps it.  The cleaned text is split on newline.
C9_QuotesStrippedAsPair ==
    \A c \in CallIds :
        hasContent(c) =>
            LET s == trimmedContent(c)
                paired == /\ Len(s) >= 2
                          /\ CharAt(s, 1) \in OpenQuotes
                          /\ CharAt(s, Len(s)) \in CloseQuotes
            IN  /\ Len(afterChecks(c)) = 1
                /\ afterChecks(c)[1].kind = "result"
                /\ resultText(c) =
                     withoutArrow(IF paired THEN SubSeq(s, 2, Len(s) - 1) ELSE s)

\* C9 (amended): an opening mark at the very start is removed whenever there
\* is one, and a closing mark at the very end is removed whenever there is
\* one, each whether or not the other end has a mark; one character at most
\* goes from each end (a one-character text loses it once).  The cleaned text
\* is split on newline, so no paragraph holds a newline.
C9_QuotesStrippedAtEachEnd ==
    \A c \in CallIds :
        hasContent(c) =>
            LET s == trimmedContent(c)
                from == IF Len(s) >= 1 /\ CharAt(s, 1) \in OpenQuotes THEN 2 ELSE 1
                to == IF Len(s) >= from /\ CharAt(s, Len(s)) \in CloseQuotes
                      THEN Len(s) - 1 ELSE Len(s)
                ps == afterChecks(c)[1].toParagraphs
            IN  /\ Len(afterChecks(c)) = 1
                /\ afterChecks(c)[1].kind = "result"
                /\ resultText(c) = withoutArrow(SubSeq(s, from, to))
                /\ \A i \in 1..Len(ps) : ~ Includes(ps[i], "\n")

\* C9 witness: a content with a quotation mark at its start only (space,
\* straight quote, a, newline) has been delivered as the one paragraph a.
C9_Witness ==
    \E c \in CallIds :
        /\ hasContent(c)
        /\ last[c].choices[1] = " \"a\n"
        /\ afterChecks(c) = <<ResultEvent(<<"a">>)>>

-----------------------------------------------------------------------------
(* Properties of the streaming frame assembler.                            *)

\* A streaming translate call whose whole body has been delivered.
bodyDelivered(c) ==
    /\ kind[c] = "translate" /\ pc[c] \in {"streaming", "done"}
    /\ wire[c] = "" /\ chunks[c] > 0

\* The body cut into the single chunk that holds all of it.
oneChunk(body) == streamHandler("", "", body)

\* C2 (as claimed): however the body is cut into chunks, the partial results
\* and the final accumulated text are those of any other cutting, so those
\* of the cutting into one chunk.
C2_SplitInvariance ==
    \A c \in CallIds :
        bodyDelivered(c) =>
            /\ partialsOf(events[c]) = partialsOf(oneChunk(delivered[c]).events)
            /\ targetText[c] = oneChunk(delivered[c]).targetText

\* C2 (amended): two cuttings of a body none of whose chunks contains the text
\* "Invalid token" give the same partial results and the same accumulated
\* text: each gives those of the frames of the whole body.
C2_SplitInvarianceWithoutToken ==
    \A c \in CallIds :
        bodyDelivered(c) /\ dropped[c] = 0 =>
            LET whole == CHOOSE r \in {extractFrames(delivered[c], "", <<>>, <<>>)} : TRUE
            IN  /\ partialsOf(events[c]) = partialsOf(whole.events)
                /\ targetText[c] = whole.targetText

\* C2 witness: the example stream has been delivered in three chunks, the
\* last one starting inside the second frame's delta, and gave "Hi there".
C2_Witness ==
    \E c \in CallIds :
        /\ bodyDelivered(c) /\ dropped[c] = 0 /\ chunks[c] = 3
        /\ delivered[c] = FrameHi \o FrameThere \o FrameDone
        /\ StartsWith(chunk[c], "there")
        /\ partialsOf(events[c]) = <<"Hi", "Hi there">>

\* The payloads of the complete frames of a text, in order: each frame found
\* is followed by the rest of the text after it.
RECURSIVE framesIn(_)
framesIn(text) ==
    LET match == CHOOSE m \in {frameMatch(text)} : TRUE
    IN  IF match.index < 0 THEN <<>>
        ELSE <<Trim(match.group)>> \o framesIn(Slice(text, match.index + Len(match.all)))

\* C3: every complete frame of the text fed so far has been passed to
\* handleStreamResponse exactly once and in order, and each extraction step
\* removed from the buffer exactly the bytes of the frame it decoded.
C3_NoByteLostOrDuplicated ==
    \A c \in CallIds :
        /\ frames[c] = framesIn(consumed[c])
        /\ \A i \in 1..Len(pass[c]) : pass[c][i].removed = pass[c][i].matched

\* The body made of one frame per delta, then the [DONE] frame.
RECURSIVE deltaFrames(_)
deltaFrames(ds) ==
    IF Len(ds) = 0 THEN FrameDone
    ELSE "data: " \o DeltaOpen \o ds[1] \o DeltaClose \o "\n" \o deltaFrames(Tail(ds))

RECURSIVE concat(_)
concat(ds) == IF Len(ds) = 0 THEN "" ELSE ds[1] \o concat(Tail(ds))

Deltas == {"Hi", " there", "Invalid token"}

DeltaLists == UNION {[1..n -> Deltas] : n \in 1..(MaxFrames + 1)}

\* A streaming call that received the frames of ds and [DONE], then a final
\* response with a status below 400.
streamedOk(c, ds) ==
    /\ kind[c] = "translate" /\ pc[c] = "done" /\ streamEnabled(option.stream)
    /\ ~ last[c].rejected /\ last[c].statusCode < 400
    /\ delivered[c] = deltaFrames(ds)

\* What C4 promises for the deltas ds: the k-th partial result is d1+...+dk,
\* and the completion is the one paragraph d1+...+dn.
accumulates(c, ds) ==
    /\ partialsOf(events[c]) = [k \in 1..Len(ds) |-> concat(SubSeq(ds, 1, k))]
    /\ events[c][Len(events[c])] = ResultEvent(<<concat(ds)>>)
    /\ Len(completionsOf(c)) = 1

\* C4 (as claimed): frames with non-empty deltas d1..dn, then [DONE], then a
\* final status below 400, give the partial results d1, d1+d2, ... and the
\* completion d1+...+dn as one paragraph.
C4_PartialsAccumulate ==
    \A c \in CallIds : \A ds \in DeltaLists :
        streamedOk(c, ds) => accumulates(c, ds)

\* C4 (amended): the same, provided no chunk delivered contained the text
\* "Invalid token".
C4_PartialsAccumulateWithoutToken ==
    \A c \in CallIds : \A ds \in DeltaLists :
        streamedOk(c, ds) /\ dropped[c] = 0 => accumulates(c, ds)

\* C4 witness: the example stream, delivered in several chunks, gave the
\* partial results "Hi" and "Hi there" and the completion "Hi there".
C4_Witness ==
    \E c \in CallIds :
        /\ streamedOk(c, <<"Hi", " there">>) /\ chunks[c] >= 2
        /\ events[c] = <<StreamEvent(<<"Hi">>), StreamEvent(<<"Hi there">>),
                         ResultEvent(<<"Hi there">>)>>

\* The payloads on which the catch of handleStreamResponse runs: those handed
\* to JSON.parse (every payload but "[DONE]") on which JSON.parse or the
\* access to choices[0] throws.
undecodable(payload) == payload # "[DONE]" /\ parseDelta(payload).thrown # ""

\* C10: in every extraction pass, a frame whose payload fails to decode is
\* answered by one `param` error and nothing else: the accumulated text is
\* unchanged and no partial result is made for it; and the pass goes on to
\* the later frames, so that no complete frame is left in the buffer.
C10_DecodeFailureIsolated ==
    \A c \in CallIds :
        /\ \A i \in 1..Len(pass[c]) :
              undecodable(pass[c][i].payload) =>
                  /\ Len(pass[c][i].events) = 1
                  /\ pass[c][i].events[1].cb = "onCompletion"
                  /\ pass[c][i].events[1].kind = "error"
                  /\ pass[c][i].events[1].type = "param"
                  /\ pass[c][i].after = pass[c][i].before
        /\ Len(pass[c]) > 0 => frameMatch(buffer[c]).index < 0

\* C10 witness: one pass decoded a malformed frame and then, from the same
\* buffer, a frame with the delta "Hi".
C10_Witness ==
    \E c \in CallIds :
        /\ Len(pass[c]) = 2
        /\ pass[c][1].payload = "{oops}" /\ pass[c][1].events[1].type = "param"
        /\ pass[c][2].before = "" /\ pass[c][2].after = "Hi"
        /\ targetText[c] = "Hi"

-----------------------------------------------------------------------------
(* Properties of the error paths.                                          *)

\* Call c takes a chunk that contains the text "Invalid token" in this step.
takesTokenChunk(c) ==
    /\ chunks'[c] = chunks[c] + 1
    /\ hasInvalidToken(chunk'[c])

\* C11: a chunk that contains "Invalid token" is answered by one secretKey
\* error and is not parsed: no frame is extracted from it, no partial result
\* is made, and the accumulated text is what it was before the chunk, whether
\* or not the chunk holds complete frames.
C11_InvalidTokenShortCircuits ==
    [][\A c \in CallIds :
          takesTokenChunk(c) =>
              /\ Len(events'[c]) = Len(events[c]) + 1
              /\ SubSeq(events'[c], 1, Len(events[c])) = events[c]
              /\ events'[c][Len(events'[c])].cb = "onCompletion"
              /\ events'[c][Len(events'[c])].type = "secretKey"
              /\ frames'[c] = frames[c]
              /\ pass'[c] = <<>>
              /\ targetText'[c] = targetText[c]]_vars

\* C11 witness: a chunk holding the complete frame whose delta is "Invalid
\* token" has been taken: it gave the secretKey error and no frame.
C11_Witness ==
    \E c \in CallIds :
        /\ pc[c] = "streaming" /\ hasInvalidToken(chunk[c])
        /\ frameMatch(chunk[c]).index >= 0
        /\ dropped[c] = 1 /\ frames[c] = <<>> /\ targetText[c] = ""
        /\ events[c][Len(events[c])].type = "secretKey"

\* Call c is over and its request was answered by an HTTP response that the
\* code treats as an error: data.error (pluginValidate), result.error (plain
\* translate), or a final status of 400 or more (streaming translate).
httpErrorReported(c) ==
    /\ pc[c] = "done" /\ Len(http[c]) > 0 /\ ~ last[c].rejected
    /\ IF kind[c] = "translate" /\ streamEnabled(option.stream)
       THEN last[c].statusCode >= 400
       ELSE last[c].error

\* C12: the error reported for an HTTP response has kind `param` exactly when
\* the status s satisfies 400 <= s < 500, and kind `api` for every other status.
C12_ErrorKindByStatus ==
    \A c \in CallIds :
        httpErrorReported(c) =>
            LET e == events[c][Len(events[c])]
                s == last[c].statusCode
            IN  /\ isCompletion(e) /\ e.kind = "error"
                /\ (e.type = "param") <=> (400 <= s /\ s < 500)
                /\ (e.type = "api") <=> ~ (400 <= s /\ s < 500)

\* C12 witness: pluginValidate's request was answered with status 500 and an
\* error body, and the error reported is of kind `api`.
C12_Witness ==
    \E c \in CallIds :
        /\ kind[c] = "validate" /\ httpErrorReported(c)
        /\ last[c].statusCode = 500
        /\ events[c][Len(events[c])].type = "api"

-----------------------------------------------------------------------------
(* Properties of the endpoint resolver.                                    *)

\* The normalized base URL of a configuration.
baseUrlOf(opt) == ensureHttpsAndNoTrailingSlash(orDefaultUrl(opt.apiUrl))

\* The path C13 gives a request that is not for Azure.
plainPath(opt, k) ==
    IF Includes(baseUrlOf(opt), "gateway.ai.cloudflare.com")
    THEN (IF k = "validate" THEN "/models" ELSE "/chat/completions")
    ELSE (IF k = "validate" THEN "/v1/models" ELSE "/v1/chat/completions")

\* The path C13 gives an Azure request, up to the value of api-version.
azurePath(opt) ==
    "/openai/deployments/" \o opt.deploymentName \o "/chat/completions?api-version="

\* C13: every request goes to the normalized base URL followed by the path of
\* the provider family: the deployment path and an api-version query for
\* Azure, /models or /chat/completions for the Cloudflare gateway, /v1/models
\* or /v1/chat/completions otherwise.
C13_EndpointPathByFamily ==
    \A c \in CallIds : \A i \in 1..Len(http[c]) :
        LET url == http[c][i].url
            base == baseUrlOf(option)
        IN  /\ StartsWith(url, base)
            /\ IF Includes(base, "openai.azure.com")
               THEN StartsWith(Slice(url, Len(base)), azurePath(option))
               ELSE Slice(url, Len(base)) = plainPath(option, kind[c])

\* The api-version defaults of the code: pluginValidate's and translate's.
DefaultApiVersions == {"2023-05-15", "2023-03-15-preview"}

\* C14: an Azure request (of pluginValidate or of translate) carries the
\* configured apiVersion as its api-version parameter whenever one is
\* configured, and a fixed default only when none is.
C14_ApiVersionFromConfiguration ==
    \A c \in CallIds : \A i \in 1..Len(http[c]) :
        isAzure(option) /\ option.deploymentName # "" =>
            IF option.apiVersion # ""
            THEN EndsWith(http[c][i].url, "?api-version=" \o option.apiVersion)
            ELSE \E v \in DefaultApiVersions :
                    EndsWith(http[c][i].url, "?api-version=" \o v)

-----------------------------------------------------------------------------
(* Call isolation.                                                         *)

\* The callbacks call c has received from its streamHandler: those after the
\* ones of translate's up-front checks and before the one of the final handler.
streamedEvents(c) ==
    LET first == Len(translateChecks(option, query[c])) + 1
        final == IF pc[c] = "done" THEN Len(events[c]) - 1 ELSE Len(events[c])
    IN  SubSeq(events[c], first, final)

\* C15: with two streaming calls in flight and their chunks interleaved in
\* any order, each call has the buffer, the accumulated text and the sequence
\* of callbacks of a call that received the same body alone.
C15_CallIsolation ==
    \A c \in CallIds :
        pc[c] \in {"streaming", "done"} =>
            LET alone == CHOOSE r \in {oneChunk(delivered[c])} : TRUE
            IN  /\ buffer[c] = alone.buffer
                /\ targetText[c] = alone.targetText
                /\ streamedEvents(c) = alone.events
                /\ pc[c] = "done" =>
                     events[c][Len(events[c])] =
                         streamEndHandler(alone.targetText, last[c].statusCode)

\* C15 witness: both calls are in flight, each has received part of a
\* different body, and each has accumulated the text of its own frames.
C15_Witness ==
    /\ pc["q1"] = "streaming" /\ pc["q2"] = "streaming"
    /\ chunks["q1"] = 2 /\ chunks["q2"] = 2
    /\ wire["q1"] # "" /\ wire["q2"] = ""
    /\ targetText["q1"] = "Hi" /\ delivered["q2"] = FrameBad \o FrameHi
    /\ partialsOf(events["q2"]) = <<"Hi">>

-----------------------------------------------------------------------------
(* Properties of the buffer and of the end of the stream.                  *)

\* A text that is the beginning of a frame whose newline has not arrived.
incompleteFrame(b) ==
    /\ ~ Includes(b, "\n")
    /\ StartsWith(b, "data: ") \/ StartsWith("data: ", b)

\* C16: after every extraction pass the buffer is empty or holds only the
\* beginning of a frame that is not yet complete; so that a stream ending in
\* the [DONE] frame, once fed whole, leaves the buffer empty.
C16_BufferHoldsOnlyIncompleteFrame ==
    \A c \in CallIds :
        pc[c] \in {"streaming", "done"} /\ chunks[c] > 0 /\ dropped[c] = 0 =>
            /\ buffer[c] = "" \/ incompleteFrame(buffer[c])
            /\ wire[c] = "" /\ EndsWith(delivered[c], FrameDone) => buffer[c] = ""

\* C17: an error is terminal for its translate call: the error is the last
\* callback the call makes (no partial result, result or second error comes
\* after it), and a call whose up-front checks reported an error hands no
\* request to the transport.
C17_ErrorIsTerminal ==
    \A c \in CallIds :
        kind[c] = "translate" /\ pc[c] \notin {"unused", "ready"} =>
            /\ \A i \in 1..Len(events[c]) :
                  events[c][i].kind = "error" => i = Len(events[c])
            /\ translateChecks(option, query[c]) # <<>> => Len(http[c]) = 0

\* The positions (1-based) at which the line `data: [DONE]` starts in a text.
doneLines(text) ==
    {k \in 1..(Len(text) - Len(FrameDone) + 1) :
        /\ SubSeq(text, k, k + Len(FrameDone) - 1) = FrameDone
        /\ k = 1 \/ CharAt(text, k - 1) = "\n"}

\* C18: the [DONE] frame is extracted and consumed from the buffer, is never
\* handed to JSON decoding and raises no error, and ends the logical stream:
\* the partial results are those of the frames that came before it.
C18_DoneEndsStream ==
    \A c \in CallIds :
        bodyDelivered(c) /\ dropped[c] = 0 /\ doneLines(delivered[c]) # {} =>
            LET k == SetMin(doneLines(delivered[c]))
                upToDone == CHOOSE r \in {oneChunk(SubSeq(delivered[c], 1, k - 1))} : TRUE
            IN  /\ ~ Includes(buffer[c], FrameDone)
                /\ \A i \in 1..Len(frames[c]) : frames[c][i] # "[DONE]"
                /\ partialsOf(events[c]) = partialsOf(upToDone.events)

\* C19: with apiKeys empty, pluginValidate and translate each report a
\* secretKey error and hand no request to the transport.
C19_MissingCredentialsNoRequest ==
    \A c \in CallIds :
        pc[c] \notin {"unused", "ready"} /\ option.apiKeys = "" =>
            hasError(c, "secretKey") /\ Len(http[c]) = 0

\* The stream request of call c ends in this step: handler(result) runs.
streamEnds(c) ==
    /\ kind[c] = "translate" /\ pc[c] = "streaming" /\ pc'[c] = "done"
    /\ ~ last'[c].rejected

\* C20: the final handler of a streaming call makes exactly one callback,
\* chosen by the final status alone: an error when the status is 400 or more,
\* the accumulated text as a one-paragraph result when it is below 400, whether
\* or not partial results were streamed and whether or not the text is empty.
C20_FinalOutcomeByStatus ==
    [][\A c \in CallIds :
          streamEnds(c) =>
              LET e == events'[c][Len(events'[c])]
              IN  /\ Len(events'[c]) = Len(events[c]) + 1
                  /\ SubSeq(events'[c], 1, Len(events[c])) = events[c]
                  /\ isCompletion(e)
                  /\ IF last'[c].statusCode >= 400
                     THEN e.kind = "error"
                     ELSE e = ResultEvent(<<targetText[c]>>)]_vars

\* C20 witness: a call that had streamed the partial result "Hi" ended with
\* status 500 and was answered with an error, not with the text.
C20_Witness ==
    \E c \in CallIds :
        /\ kind[c] = "translate" /\ pc[c] = "done" /\ last[c].statusCode = 500
        /\ partialsOf(events[c]) = <<"Hi">> /\ targetText[c] = "Hi"
        /\ events[c][Len(events[c])].kind = "error"
        /\ events[c][Len(events[c])].type = "api"

====
